---- MODULE Spec2Model ----
(***************************************************************************)
(* Ollama provider (src/src/provider.ts): the streamChat async generator,  *)
(* its NDJSON line decoder processStreamLine and the tool-call identifier  *)
(* generator, as a state machine.  One step of the machine is one run of   *)
(* the generator between two suspension points (a yield handed to the      *)
(* consumer, or an await on the network stream).                           *)
(***************************************************************************)
EXTENDS Integers, Sequences, FiniteSets, TLC

(***************************************************************************)
(* Bounds of the model.                                                    *)
(***************************************************************************)
MaxLines == 2        \* lines in an arbitrary body the server sends

(***************************************************************************)
(* Text.  A text is a sequence of symbols: the newline, a blank, the two   *)
(* braces and one symbol per JSON object body.                             *)
(***************************************************************************)
NL == "\n"
SP == " "

Bodies == {"a", "b", "d", "e", "p"}

ToolCallA == [function |-> [name |-> "get_time", arguments |-> "{}"]]
ToolCallB == [function |-> [name |-> "get_weather", arguments |-> "{city}"]]

\* The decoded OllamaChatResponse of each body.  An absent optional number
\* is <<>>, a present one <<n>>; an absent string is "", an absent array <<>>.
Objs ==
  [b \in Bodies |->
     CASE b = "a" -> [message |-> [thinking |-> "", content |-> "Hi", tool_calls |-> <<>>],
                      done |-> FALSE, prompt_eval_count |-> <<>>, eval_count |-> <<>>]
       [] b = "b" -> [message |-> [thinking |-> "hm", content |-> "Hi there", tool_calls |-> <<ToolCallA>>],
                      done |-> FALSE, prompt_eval_count |-> <<>>, eval_count |-> <<>>]
       [] b = "d" -> [message |-> [thinking |-> "", content |-> "Done", tool_calls |-> <<ToolCallA, ToolCallB>>],
                      done |-> TRUE, prompt_eval_count |-> <<12>>, eval_count |-> <<0>>]
       [] b = "e" -> [message |-> [thinking |-> "", content |-> "", tool_calls |-> <<ToolCallA>>],
                      done |-> FALSE, prompt_eval_count |-> <<>>, eval_count |-> <<>>]
       [] b = "p" -> [message |-> [thinking |-> "plan", content |-> "Bye", tool_calls |-> <<ToolCallB>>],
                      done |-> TRUE, prompt_eval_count |-> <<7>>, eval_count |-> <<>>]]

\* The lines a server body is made of: one per object, a truncated object
\* and a line of white space.
LineTexts ==
  {<<"{", b, "}">> : b \in Bodies} \cup {<<"{", "a">>, <<SP>>}

RECURSIVE Join(_)
Join(ls) ==
  IF ls = <<>> THEN <<>>
  ELSE IF Len(ls) = 1 THEN ls[1]
  ELSE ls[1] \o <<NL>> \o Join(Tail(ls))

(***************************************************************************)
(* String.prototype.split('\n'), trim() and JSON.parse.                    *)
(***************************************************************************)
RECURSIVE Split(_)
Split(s) ==
  IF \A i \in 1..Len(s) : s[i] # NL THEN <<s>>
  ELSE LET i == CHOOSE j \in 1..Len(s) :
                  s[j] = NL /\ \A k \in 1..(j - 1) : s[k] # NL
       IN  <<SubSeq(s, 1, i - 1)>> \o Split(SubSeq(s, i + 1, Len(s)))

\* Mutation of Pop: the incomplete piece is thrown away.
PopDropped(parts) == <<>>

\* lines.pop() || '': the piece after the last newline.
Pop(parts) == parts[Len(parts)]

IsSpace(x) == x = SP \/ x = NL

\* !line.trim(): the line holds nothing but white space.
IsBlank(line) == \A i \in 1..Len(line) : IsSpace(line[i])

\* JSON.parse: white space between tokens is insignificant; the text must be
\* exactly one object, otherwise a SyntaxError is thrown (ok = FALSE).
JSONParse(line) ==
  LET t == SelectSeq(line, LAMBDA x : ~IsSpace(x))
  IN  IF Len(t) = 3 /\ t[1] = "{" /\ t[3] = "}" /\ t[2] \in Bodies
      THEN [ok |-> TRUE, data |-> Objs[t[2]]]
      ELSE [ok |-> FALSE]

(***************************************************************************)
(* Date.now(): the values the clock can show when an identifier is made.   *)
(***************************************************************************)
Timestamps == {0, 1}

(***************************************************************************)
(* toolCallCounter and generateToolCallId.  The counter is a JavaScript    *)
(* number compared with Number.MAX_SAFE_INTEGER = 2^53 - 1; it is kept as  *)
(* two limbs, value = hi * 36^5 + lo, so that the comparison and the       *)
(* base-36 rendering are computed on the full width.                       *)
(***************************************************************************)
Limb == 36 * 36 * 36 * 36 * 36

MAX_SAFE_INTEGER == [hi |-> 148962607, lo |-> 42460159]

Zero == [hi |-> 0, lo |-> 0]
One  == [hi |-> 0, lo |-> 1]

Inc(n) ==
  IF n.lo + 1 = Limb THEN [hi |-> n.hi + 1, lo |-> 0]
  ELSE [hi |-> n.hi, lo |-> n.lo + 1]

Geq(m, n) == m.hi > n.hi \/ (m.hi = n.hi /\ m.lo >= n.lo)

RECURSIVE Digits36(_)
Digits36(n) == IF n < 36 THEN <<n>> ELSE Digits36(n \div 36) \o <<n % 36>>

Pad5(ds) == [i \in 1..(5 - Len(ds)) |-> 0] \o ds

\* Number.prototype.toString(36), as the sequence of base-36 digits.
ToString36(n) ==
  IF n.hi = 0 THEN Digits36(n.lo) ELSE Digits36(n.hi) \o Pad5(Digits36(n.lo))

\* Mutation of generateToolCallId: the identifier is the timestamp alone.
generateToolCallIdTimestampOnly(counter, now) ==
  [counter |-> counter, id |-> <<"call", now, <<>>>>]

\* Mutation of generateToolCallId: the counter is not advanced.
generateToolCallIdNoIncrement(counter, now) ==
  [counter |-> counter, id |-> <<"call", now, ToString36(counter)>>]

\* generateToolCallId(): the new counter and `call_${Date.now()}_${counter}`.
generateToolCallId(counter, now) ==
  LET c1 == Inc(counter)
      c2 == IF Geq(c1, MAX_SAFE_INTEGER) THEN One ELSE c1
  IN  [counter |-> c2, id |-> <<"call", now, ToString36(c2)>>]

(***************************************************************************)
(* processStreamLine: the yields of one decoded object, in source order.   *)
(* The identifier of a tool_start is generated when that yield is reached. *)
(***************************************************************************)
ThinkingEvent(data) == [type |-> "thinking", text |-> data.message.thinking]

\* Mutation of ContentEvent: the thinking text is prepended to the content.
ContentEventWithThinking(data) ==
  [type |-> "content", text |-> data.message.thinking \o data.message.content]

ContentEvent(data) == [type |-> "content", text |-> data.message.content]

ToolStartEvent(toolCall, toolCallId) ==
  [type |-> "tool_start", name |-> toolCall.function.name,
   input |-> toolCall.function.arguments, toolCallId |-> toolCallId]

\* Mutation of ToolYields: the tool calls of every object are yielded,
\* terminal or not.
ToolYieldsOfAnyObject(data) ==
  [i \in 1..Len(data.message.tool_calls) |->
     [type |-> "tool_start", call |-> data.message.tool_calls[i]]]

ToolYields(data) ==
  IF data.done /\ Len(data.message.tool_calls) > 0
  THEN [i \in 1..Len(data.message.tool_calls) |->
          [type |-> "tool_start", call |-> data.message.tool_calls[i]]]
  ELSE <<>>

\* Mutation of LineYields: the content is yielded before the thinking.
LineYieldsContentFirst(data) ==
     (IF data.message.content # "" THEN <<ContentEvent(data)>> ELSE <<>>)
  \o (IF data.message.thinking # "" THEN <<ThinkingEvent(data)>> ELSE <<>>)
  \o ToolYields(data)

LineYields(data) ==
     (IF data.message.thinking # "" THEN <<ThinkingEvent(data)>> ELSE <<>>)
  \o (IF data.message.content # "" THEN <<ContentEvent(data)>> ELSE <<>>)
  \o ToolYields(data)

\* The value processStreamLine returns once its yields are exhausted.
LineResult(data) == IF data.done THEN <<data>> ELSE <<>>

LogParseWarn == [level |-> "warn", msg |-> "Failed to parse streaming chunk"]

(***************************************************************************)
(* The line loop (`for (const line of lines)`), run from the k-th yield of *)
(* the first line of ls up to the next yield or to the end of ls.          *)
(***************************************************************************)
RECURSIVE RunLines(_, _, _, _)

\* Mutation of RunLines: a line that does not parse ends the loop.
RunLinesBreak(ls, k, fr, lg) ==
  IF ls = <<>> THEN [kind |-> "exhausted", final |-> fr, log |-> lg]
  ELSE IF IsBlank(Head(ls)) THEN RunLines(Tail(ls), 0, fr, lg)
  ELSE LET r == JSONParse(Head(ls))
       IN  IF ~r.ok THEN [kind |-> "exhausted", final |-> fr,
                          log |-> Append(lg, LogParseWarn)]
           ELSE IF k < Len(LineYields(r.data))
                THEN [kind |-> "yield", ev |-> LineYields(r.data)[k + 1],
                      lines |-> ls, at |-> k + 1, final |-> fr, log |-> lg]
                ELSE RunLines(Tail(ls), 0,
                              IF LineResult(r.data) # <<>> THEN LineResult(r.data) ELSE fr,
                              lg)

RunLines(ls, k, fr, lg) ==
  IF ls = <<>> THEN [kind |-> "exhausted", final |-> fr, log |-> lg]
  ELSE IF IsBlank(Head(ls)) THEN RunLines(Tail(ls), 0, fr, lg)
  ELSE LET r == JSONParse(Head(ls))
       IN  IF ~r.ok THEN RunLines(Tail(ls), 0, fr, Append(lg, LogParseWarn))
           ELSE IF k < Len(LineYields(r.data))
                THEN [kind |-> "yield", ev |-> LineYields(r.data)[k + 1],
                      lines |-> ls, at |-> k + 1, final |-> fr, log |-> lg]
                ELSE RunLines(Tail(ls), 0,
                              IF LineResult(r.data) # <<>> THEN LineResult(r.data) ELSE fr,
                              lg)

(***************************************************************************)
(* Input normalisation: localizedStringToString, convertToolsToOllama,     *)
(* mapTypeToRole, convertMessageToOllama.  A string is a sequence of       *)
(* characters; a thrown value carries its message when it is an Error and  *)
(* its own text (value) when it is anything else.                          *)
(***************************************************************************)
DEFAULT_OLLAMA_URL == "http://localhost:11434"
DEFAULT_MODEL == "llama3.2:8b"
DEFAULT_LOCALIZED_FALLBACK == <<"[missing localized string]">>

RECURSIVE TrimStart(_)
TrimStart(s) == IF s # <<>> /\ IsSpace(Head(s)) THEN TrimStart(Tail(s)) ELSE s

RECURSIVE TrimEnd(_)
TrimEnd(s) ==
  IF s # <<>> /\ IsSpace(s[Len(s)]) THEN TrimEnd(SubSeq(s, 1, Len(s) - 1)) ELSE s

Trim(s) == TrimEnd(TrimStart(s))

TypeErrorEn ==
  [isError |-> TRUE,
   message |-> <<"Cannot read properties of undefined (reading 'en')">>,
   value |-> <<>>]

\* A LocalizedString is [kind |-> "string", str], [kind |-> "record", rec]
\* with rec the sequence of <<locale, text>> entries, or, for a tool that
\* has no description, [kind |-> "undefined"].
RECURSIVE FirstNonEmpty(_)
FirstNonEmpty(rec) ==
  IF rec = <<>> THEN DEFAULT_LOCALIZED_FALLBACK
  ELSE IF Trim(rec[1][2]) # <<>> THEN Trim(rec[1][2])
  ELSE FirstNonEmpty(Tail(rec))

EnValue(rec) ==
  IF \E i \in 1..Len(rec) : rec[i][1] = "en"
  THEN Trim(rec[CHOOSE i \in 1..Len(rec) : rec[i][1] = "en"][2])
  ELSE <<>>

localizedStringToString(value) ==
  IF value.kind = "string"
  THEN [ok |-> TRUE,
        value |-> IF Trim(value.str) # <<>> THEN Trim(value.str)
                  ELSE DEFAULT_LOCALIZED_FALLBACK]
  ELSE IF value.kind = "undefined"
  THEN [ok |-> FALSE, error |-> TypeErrorEn]
  ELSE [ok |-> TRUE,
        value |-> IF EnValue(value.rec) # <<>> THEN EnValue(value.rec)
                  ELSE FirstNonEmpty(value.rec)]

\* convertToolsToOllama: <<>> stands for undefined; the map throws when one
\* description cannot be converted.
convertToolsToOllama(tools) ==
  IF tools = <<>> THEN [ok |-> TRUE, value |-> <<>>]
  ELSE IF \E i \in 1..Len(tools) : ~localizedStringToString(tools[i].description).ok
  THEN [ok |-> FALSE, error |-> TypeErrorEn]
  ELSE [ok |-> TRUE,
        value |-> [i \in 1..Len(tools) |->
                     [type |-> "function",
                      function |-> [name |-> tools[i].id,
                                    description |->
                                      localizedStringToString(tools[i].description).value,
                                    parameters |-> tools[i].parameters]]]]

mapTypeToRole(type) ==
  CASE type \in {"instruction", "system"} -> "system"
    [] type = "user" -> "user"
    [] type \in {"assistant", "stina"} -> "assistant"
    [] type = "tool" -> "tool"
    [] OTHER -> "user"

\* message.role and message.type are <<>> when absent.
convertMessageToOllama(message) ==
  LET role == IF message.role # <<>> THEN message.role[1]
              ELSE mapTypeToRole(IF message.type # <<>> THEN message.type[1] ELSE "user")
  IN  [role |-> role, content |-> message.content,
       tool_calls |-> [i \in 1..Len(message.tool_calls) |->
                         [function |-> [name |-> message.tool_calls[i].name,
                                        arguments |-> message.tool_calls[i].arguments]]]]

\* Mutation of ThinkField: the setting is passed on as it is.
ThinkFieldPassedOn(thinkingSetting) ==
  IF thinkingSetting # "off"
  THEN <<[isTrue |-> FALSE, mode |-> thinkingSetting]>>
  ELSE <<>>

\* The think field of the request body: absent, true, or the setting itself.
ThinkField(thinkingSetting) ==
  IF thinkingSetting # "off"
  THEN <<[isTrue |-> thinkingSetting = "on",
          mode |-> IF thinkingSetting = "on" THEN "" ELSE thinkingSetting]>>
  ELSE <<>>

(***************************************************************************)
(* Inputs of one chat invocation.                                          *)
(***************************************************************************)
UserMessage ==
  [role |-> <<"user">>, type |-> <<>>, content |-> "hello", tool_calls |-> <<>>]

ToolGood ==
  [id |-> "get_time", description |-> [kind |-> "string", str |-> <<"T">>],
   parameters |-> "{}"]

ToolLocalized ==
  [id |-> "get_weather",
   description |-> [kind |-> "record", rec |-> <<<<"sv", <<SP>>>>, <<"en", <<"W">>>>>>],
   parameters |-> "{}"]

ToolNoDescription ==
  [id |-> "get_time", description |-> [kind |-> "undefined"], parameters |-> "{}"]

\* An absent string option or setting is "".  settings.defaultModel is the
\* "Default Model" setting of the configuration table.
MakeArgs(tools) ==
  [messages |-> <<UserMessage>>,
   options |-> [model |-> "", temperature |-> <<>>, maxTokens |-> <<>>,
                tools |-> tools,
                settings |-> [url |-> "", thinking |-> "", defaultModel |-> ""]]]

DefaultArgs == MakeArgs(<<>>)

WithModel(a, model, defaultModel) ==
  [a EXCEPT !.options.model = model, !.options.settings.defaultModel = defaultModel]

WithThinking(a, thinking) == [a EXCEPT !.options.settings.thinking = thinking]

ArgsSet ==
  {DefaultArgs, MakeArgs(<<ToolGood, ToolLocalized>>), MakeArgs(<<ToolGood, ToolNoDescription>>),
   WithModel(DefaultArgs, "qwen3:4b", ""), WithModel(DefaultArgs, "", "mistral:7b"),
   WithModel(DefaultArgs, "qwen3:4b", "mistral:7b"),
   WithThinking(DefaultArgs, "off"), WithThinking(DefaultArgs, "on"),
   WithThinking(MakeArgs(<<ToolGood, ToolLocalized>>), "high")}

\* What context.network.fetchStream does: it throws, or returns a stream
\* that may expose response metadata (ok, status, statusText; <<>> = absent).
\* (fetchStream throws a value that is not an Error.)
FetchError == [isError |-> FALSE, message |-> <<>>, value |-> <<"network not permitted">>]

MakeStream(throws, ok, status, statusText) ==
  [throws |-> throws, ok |-> ok, status |-> status, statusText |-> statusText]

PlainStream == MakeStream(<<>>, <<>>, <<>>, <<>>)

StreamSet ==
  {PlainStream,
   MakeStream(<<FetchError>>, <<>>, <<>>, <<>>),
   MakeStream(<<>>, <<TRUE>>, <<200>>, <<"OK">>),
   MakeStream(<<>>, <<FALSE>>, <<500>>, <<"Internal Server Error">>),
   MakeStream(<<>>, <<FALSE>>, <<>>, <<>>),
   MakeStream(<<>>, <<>>, <<500>>, <<"Internal Server Error">>)}

\* What the chunk iteration can reject with.
IterationErrors ==
  {[isError |-> TRUE, message |-> <<"socket hang up">>, value |-> <<>>]}

\* error instanceof Error ? error.message : String(error)
ErrorText(error) == IF error.isError THEN error.message ELSE error.value

\* Mutation of HttpError: the message does not name the status.
HttpErrorNoStatus(stream) ==
  [isError |-> TRUE,
   message |-> <<"Ollama streaming chat request failed: ",
                 IF stream.statusText # <<>> THEN stream.statusText[1] ELSE "HTTP error">>,
   value |-> <<>>]

HttpError(stream) ==
  [isError |-> TRUE,
   message |-> <<"Ollama streaming chat request failed with status ",
                 IF stream.status # <<>> THEN ToString(stream.status[1]) ELSE "unknown",
                 ": ",
                 IF stream.statusText # <<>> THEN stream.statusText[1] ELSE "HTTP error">>,
   value |-> <<>>]

(***************************************************************************)
(* fetchModels: the answer of GET /api/tags and the list made of it.       *)
(* context.network.fetch rejects (throws # <<>>) or resolves with a        *)
(* response; response.ok is true for a status of 200..299.  The body is    *)
(* text that parses as JSON or not; the parsed object has a models array   *)
(* (models = <<the array>>) or none (models = <<>>).                       *)
(***************************************************************************)
\* An OllamaModel: details is <<>> when absent, and so is parameter_size.
ModelEntry(name, details) == [name |-> name, details |-> details]

Details(parameter_size) == <<[parameter_size |-> parameter_size]>>

TagsModels ==
  <<ModelEntry("llama3.2:8b", Details(<<"8.0B">>)),
    ModelEntry("mistral:7b", <<>>),
    ModelEntry("qwen3:4b", Details(<<"">>)),
    ModelEntry("phi4", Details(<<>>))>>

MakeBody(parses, models) == [parses |-> parses, models |-> models]

MakeResponse(throws, status, statusText, body) ==
  [throws |-> throws, ok |-> status \in 200..299, status |-> status,
   statusText |-> statusText, body |-> body]

ResponseSet ==
  {MakeResponse(<<>>, 200, "OK", MakeBody(TRUE, <<TagsModels>>)),
   MakeResponse(<<>>, 200, "OK", MakeBody(TRUE, <<<<ModelEntry("phi4", Details(<<"14.7B">>))>>>>)),
   MakeResponse(<<>>, 200, "OK", MakeBody(TRUE, <<<<>>>>)),
   MakeResponse(<<>>, 200, "OK", MakeBody(TRUE, <<>>)),
   MakeResponse(<<>>, 200, "OK", MakeBody(FALSE, <<>>)),
   MakeResponse(<<>>, 404, "Not Found", MakeBody(TRUE, <<>>)),
   MakeResponse(<<>>, 500, "Internal Server Error", MakeBody(FALSE, <<>>)),
   MakeResponse(<<FetchError>>, 200, "OK", MakeBody(TRUE, <<TagsModels>>))}

\* options?.settings?.url || DEFAULT_OLLAMA_URL, then `${url}/api/tags`.
TagsUrl(url) == <<IF url # "" THEN url ELSE DEFAULT_OLLAMA_URL, "/api/tags">>

\* Mutation of StatusError: the message names the status text only.
StatusErrorTextOnly(r) ==
  [isError |-> TRUE, message |-> <<"Failed to fetch models: ", r.statusText>>,
   value |-> <<>>]

\* new Error(`Failed to fetch models: ${response.status} ${response.statusText}`)
StatusError(r) ==
  [isError |-> TRUE,
   message |-> <<"Failed to fetch models: ", ToString(r.status), " ", r.statusText>>,
   value |-> <<>>]

\* What response.json() rejects with, and what data.models.map throws when
\* the parsed body has no models array.
JsonSyntaxError ==
  [isError |-> TRUE, message |-> <<"Unexpected end of JSON input">>, value |-> <<>>]

TypeErrorMap ==
  [isError |-> TRUE,
   message |-> <<"Cannot read properties of undefined (reading 'map')">>,
   value |-> <<>>]

\* Mutation of ModelInfoOf: the description is built whether or not the
\* parameter size is there.
ModelInfoAlwaysDescribed(model) ==
  [id |-> model.name, name |-> model.name,
   description |->
     <<(IF model.details # <<>> /\ model.details[1].parameter_size # <<>>
        THEN model.details[1].parameter_size[1] ELSE "undefined") \o " parameters">>]

\* One element of data.models.map(...); an undefined description is <<>>.
ModelInfoOf(model) ==
  [id |-> model.name, name |-> model.name,
   description |->
     IF /\ model.details # <<>>
        /\ model.details[1].parameter_size # <<>>
        /\ model.details[1].parameter_size[1] # ""
     THEN <<model.details[1].parameter_size[1] \o " parameters">>
     ELSE <<>>]

LogFetching == [level |-> "debug", msg |-> "Fetching models from Ollama"]
LogFetched(count) ==
  [level |-> "info", msg |-> "Fetched Ollama models", count |-> count]
LogFetchFailed(error) ==
  [level |-> "error", msg |-> "Failed to fetch Ollama models", error |-> ErrorText(error)]

Calls == {1, 2}

(***************************************************************************)
(* State.                                                                  *)
(***************************************************************************)
VARIABLES
  pc,              \* per call: where the generator is suspended
  args,            \* per call: messages and options passed to chat()
  stream,          \* per call: what fetchStream returns
  rest,            \* per call: body text the network has not delivered yet
  received,        \* per call: body text delivered so far
  buffer,          \* per call: the carry-over buffer
  lines,           \* per call: lines of the current chunk not finished yet
  at,              \* per call: yields done inside the first of those lines
  finalResponse,   \* per call: <<>> (null) or <<the last terminal object>>
  events,          \* per call: events handed to the consumer
  thrown,          \* per call: <<>> or <<exception that left the generator>>
  failure,         \* per call: <<>> or <<what the chunk iteration rejected with>>
  request,         \* per call: the requests given to fetchStream, in order
  closed,          \* per call: return() was invoked on the stream's iterator
  carried,         \* per call: some chunk ended inside a line (text was carried over)
  toolCallCounter, \* module-level counter
  log,             \* context.log entries
  mpc,             \* per getModels call: where fetchModels is suspended
  response,        \* per getModels call: what context.network.fetch does
  result,          \* per getModels call: <<>> or <<how the promise settled>>
  fetched          \* per getModels call: the URLs given to fetch, in order

\* The state of the getModels calls, and the state of the chat calls.
modelsVars == <<mpc, response, result, fetched>>

chatVars == <<pc, args, stream, rest, received, buffer, lines, at, finalResponse,
              events, thrown, failure, request, closed, carried, toolCallCounter>>

vars == <<chatVars, log, modelsVars>>

TextsUpTo(n) ==
  LET lss == UNION {[1..m -> LineTexts] : m \in 0..n}
  IN  {Join(ls) : ls \in lss} \cup {Join(ls) \o <<NL>> : ls \in lss}

\* Longer bodies: a malformed line between two valid ones, and a whole
\* answer (content, thinking and content, the terminal object).
ScenarioTexts ==
  {<<"{", "a", "}", NL, "{", "a", NL, "{", "b", "}", NL>>,
   <<"{", "a", "}", NL, "{", "b", "}", NL, "{", "d", "}", NL>>}

\* getModels is not called.
NoModelsCalls ==
  /\ mpc = [c \in Calls |-> "unused"]
  /\ response = [c \in Calls |-> MakeResponse(<<>>, 200, "OK", MakeBody(TRUE, <<<<>>>>))]
  /\ result = [c \in Calls |-> <<>>]
  /\ fetched = [c \in Calls |-> <<>>]

\* One chat invocation; call 2 is never made.
Init ==
  /\ pc = [c \in Calls |-> IF c = 1 THEN "created" ELSE "unused"]
  /\ \E a \in ArgsSet, s \in StreamSet, t \in TextsUpTo(MaxLines) \cup ScenarioTexts :
       /\ (a = DefaultArgs /\ s = PlainStream) \/ t \in TextsUpTo(1)
       /\ args = [c \in Calls |-> IF c = 1 THEN a ELSE DefaultArgs]
       /\ stream = [c \in Calls |-> IF c = 1 THEN s ELSE PlainStream]
       /\ rest = [c \in Calls |-> IF c = 1 THEN t ELSE <<>>]
  /\ received = [c \in Calls |-> <<>>]
  /\ buffer = [c \in Calls |-> <<>>]
  /\ lines = [c \in Calls |-> <<>>]
  /\ at = [c \in Calls |-> 0]
  /\ finalResponse = [c \in Calls |-> <<>>]
  /\ events = [c \in Calls |-> <<>>]
  /\ thrown = [c \in Calls |-> <<>>]
  /\ failure = [c \in Calls |-> <<>>]
  /\ request = [c \in Calls |-> <<>>]
  /\ closed = [c \in Calls |-> FALSE]
  /\ carried = [c \in Calls |-> FALSE]
  /\ toolCallCounter = Zero
  /\ log = <<>>
  /\ NoModelsCalls

(***************************************************************************)
(* streamChat.                                                             *)
(***************************************************************************)
LogStart == [level |-> "debug", msg |-> "Starting streaming chat with Ollama"]
LogNoFinal ==
  [level |-> "warn",
   msg |-> "Streaming response completed without receiving final chunk (done=true)"]
LogChatError(error) ==
  [level |-> "error", msg |-> "Ollama streaming chat error", error |-> ErrorText(error)]

\* Mutation of Usage: a usage is attached as soon as the prompt count is there.
UsagePartial(fr) ==
  IF fr # <<>> /\ fr[1].prompt_eval_count # <<>>
  THEN <<[inputTokens |-> fr[1].prompt_eval_count[1],
          outputTokens |-> IF fr[1].eval_count # <<>> THEN fr[1].eval_count[1] ELSE 0]>>
  ELSE <<>>

\* The usage of the done event: both counts or nothing.
Usage(fr) ==
  IF fr # <<>> /\ fr[1].prompt_eval_count # <<>> /\ fr[1].eval_count # <<>>
  THEN <<[inputTokens |-> fr[1].prompt_eval_count[1],
          outputTokens |-> fr[1].eval_count[1]]>>
  ELSE <<>>

DoneEvent(fr) == [type |-> "done", usage |-> Usage(fr)]

ErrorEvent(error) == [type |-> "error", message |-> ErrorText(error)]

RequestBody(a) ==
  [model |-> IF a.options.model # "" THEN a.options.model ELSE DEFAULT_MODEL,
   messages |-> [i \in 1..Len(a.messages) |-> convertMessageToOllama(a.messages[i])],
   stream |-> TRUE,
   options |-> [temperature |-> a.options.temperature,
                num_predict |-> a.options.maxTokens],
   tools |-> convertToolsToOllama(a.options.tools).value,
   think |-> ThinkField(IF a.options.settings.thinking # ""
                        THEN a.options.settings.thinking ELSE "off")]

Request(a) ==
  [url |-> <<IF a.options.settings.url # "" THEN a.options.settings.url
             ELSE DEFAULT_OLLAMA_URL, "/api/chat">>,
   method |-> "POST", body |-> RequestBody(a)]

\* Mutation of Gen: the carry-over buffer is one variable of the module,
\* written by every call.
GenSharedBuffer(c, p, buf, ls, k, fr, evs, ctr, lg) ==
  /\ pc' = [pc EXCEPT ![c] = p]
  /\ buffer' = [d \in Calls |-> buf]
  /\ lines' = [lines EXCEPT ![c] = ls]
  /\ at' = [at EXCEPT ![c] = k]
  /\ finalResponse' = [finalResponse EXCEPT ![c] = fr]
  /\ events' = [events EXCEPT ![c] = evs]
  /\ toolCallCounter' = ctr
  /\ log' = lg

\* The generator of call c is left suspended at p with these locals.
Gen(c, p, buf, ls, k, fr, evs, ctr, lg) ==
  /\ pc' = [pc EXCEPT ![c] = p]
  /\ buffer' = [buffer EXCEPT ![c] = buf]
  /\ lines' = [lines EXCEPT ![c] = ls]
  /\ at' = [at EXCEPT ![c] = k]
  /\ finalResponse' = [finalResponse EXCEPT ![c] = fr]
  /\ events' = [events EXCEPT ![c] = evs]
  /\ toolCallCounter' = ctr
  /\ log' = lg

\* Mutation of Catch: the events emitted before the error are dropped.
CatchRetract(c, error, lg) ==
  Gen(c, "yieldError", buffer[c], <<>>, 0, finalResponse[c],
      <<ErrorEvent(error)>>, toolCallCounter, Append(lg, LogChatError(error)))

\* catch (error): log it and yield the error event.
Catch(c, error, lg) ==
  Gen(c, "yieldError", buffer[c], <<>>, 0, finalResponse[c],
      Append(events[c], ErrorEvent(error)), toolCallCounter,
      Append(lg, LogChatError(error)))

\* Mutation of Finish: a stream without a final chunk is reported as an error.
FinishStrict(c, buf, fr, lg) ==
  IF fr = <<>>
  THEN Catch(c, [isError |-> TRUE, message |-> <<"incomplete stream">>, value |-> <<>>], lg)
  ELSE Gen(c, "yieldDone", buf, <<>>, 0, fr, Append(events[c], DoneEvent(fr)),
           toolCallCounter, lg)

\* The final response check and `yield { type: 'done', usage }`.
Finish(c, buf, fr, lg) ==
  Gen(c, "yieldDone", buf, <<>>, 0, fr, Append(events[c], DoneEvent(fr)),
      toolCallCounter, IF fr = <<>> THEN Append(lg, LogNoFinal) ELSE lg)

\* Run the line loop of `phase` ("Loop": lines of a chunk, "Rest": lines of
\* the remaining buffer) up to the next suspension of the generator.
RunLoop(c, phase, buf, ls, k) ==
  LET r == RunLines(ls, k, finalResponse[c], log)
  IN  IF r.kind = "yield"
      THEN IF r.ev.type = "tool_start"
           THEN \E now \in Timestamps :
                  LET g == generateToolCallId(toolCallCounter, now)
                  IN  Gen(c, "yield" \o phase, buf, r.lines, r.at, r.final,
                          Append(events[c], ToolStartEvent(r.ev.call, g.id)),
                          g.counter, r.log)
           ELSE Gen(c, "yield" \o phase, buf, r.lines, r.at, r.final,
                    Append(events[c], r.ev), toolCallCounter, r.log)
      ELSE IF phase = "Loop"
           THEN Gen(c, "awaitChunk", buf, <<>>, 0, r.final, events[c],
                    toolCallCounter, r.log)
           ELSE Finish(c, buf, r.final, r.log)

\* The consumer's first next(): normalisation, the request, the status check.
Start(c) ==
  /\ pc[c] = "created"
  /\ UNCHANGED <<modelsVars, closed, carried, args, stream, rest, received, failure>>
  /\ IF ~convertToolsToOllama(args[c].options.tools).ok
     THEN /\ pc' = [pc EXCEPT ![c] = "threw"]
          /\ thrown' = [thrown EXCEPT ![c] =
                          <<convertToolsToOllama(args[c].options.tools).error>>]
          /\ log' = Append(log, LogStart)
          /\ UNCHANGED <<buffer, lines, at, finalResponse, events, request,
                         toolCallCounter>>
     ELSE /\ request' = [request EXCEPT ![c] = Append(@, Request(args[c]))]
          /\ UNCHANGED thrown
          /\ IF stream[c].throws # <<>>
             THEN Catch(c, stream[c].throws[1], Append(log, LogStart))
             ELSE IF stream[c].ok = <<FALSE>>
             THEN Catch(c, HttpError(stream[c]), Append(log, LogStart))
             ELSE Gen(c, "awaitChunk", <<>>, <<>>, 0, <<>>, events[c],
                      toolCallCounter, Append(log, LogStart))

\* Mutation of Deliver: every piece of a chunk is decoded as a line, nothing
\* is carried over to the next chunk.
DeliverWithoutCarry(c, n) ==
  /\ pc[c] = "awaitChunk"
  /\ n \in 0..Len(rest[c])
  /\ rest' = [rest EXCEPT ![c] = SubSeq(@, n + 1, Len(@))]
  /\ received' = [received EXCEPT ![c] = @ \o SubSeq(rest[c], 1, n)]
  /\ UNCHANGED <<modelsVars, closed, args, stream, thrown, failure, request>>
  /\ LET parts == Split(SubSeq(rest[c], 1, n))
     IN  /\ carried' = [carried EXCEPT ![c] = @ \/ Pop(parts) # <<>>]
         /\ RunLoop(c, "Loop", <<>>, parts, 0)

\* The network stream delivers the next n characters as one chunk.
Deliver(c, n) ==
  /\ pc[c] = "awaitChunk"
  /\ n \in 0..Len(rest[c])
  /\ rest' = [rest EXCEPT ![c] = SubSeq(@, n + 1, Len(@))]
  /\ received' = [received EXCEPT ![c] = @ \o SubSeq(rest[c], 1, n)]
  /\ UNCHANGED <<modelsVars, closed, args, stream, thrown, failure, request>>
  /\ LET parts == Split(buffer[c] \o SubSeq(rest[c], 1, n))
     IN  /\ carried' = [carried EXCEPT ![c] = @ \/ Pop(parts) # <<>>]
         /\ RunLoop(c, "Loop", Pop(parts), SubSeq(parts, 1, Len(parts) - 1), 0)

\* Mutation of StreamEnd: what is left in the buffer is not decoded.
StreamEndIgnoresBuffer(c) ==
  /\ pc[c] = "awaitChunk"
  /\ rest[c] = <<>>
  /\ UNCHANGED <<modelsVars, closed, carried, args, stream, rest, received, thrown, failure, request>>
  /\ RunLoop(c, "Rest", buffer[c], <<>>, 0)

\* The network stream ends.
StreamEnd(c) ==
  /\ pc[c] = "awaitChunk"
  /\ rest[c] = <<>>
  /\ UNCHANGED <<modelsVars, closed, carried, args, stream, rest, received, thrown, failure, request>>
  /\ RunLoop(c, "Rest", buffer[c],
             IF ~IsBlank(buffer[c]) THEN Split(buffer[c]) ELSE <<>>, 0)

\* The network stream rejects.
StreamFail(c, error) ==
  /\ pc[c] = "awaitChunk"
  /\ failure' = [failure EXCEPT ![c] = <<error>>]
  /\ UNCHANGED <<modelsVars, closed, carried, args, stream, rest, received, thrown, request>>
  /\ Catch(c, error, log)

\* The consumer pulls the next event.
Resume(c) ==
  /\ pc[c] \in {"yieldLoop", "yieldRest", "yieldDone", "yieldError"}
  /\ UNCHANGED <<modelsVars, closed, carried, args, stream, rest, received, thrown, failure, request>>
  /\ IF pc[c] = "yieldLoop" THEN RunLoop(c, "Loop", buffer[c], lines[c], at[c])
     ELSE IF pc[c] = "yieldRest" THEN RunLoop(c, "Rest", buffer[c], lines[c], at[c])
     ELSE Gen(c, "returned", buffer[c], <<>>, 0, finalResponse[c], events[c],
              toolCallCounter, log)

Next ==
  \E c \in Calls :
    \/ Start(c)
    \/ \E n \in 0..Len(rest[c]) : Deliver(c, n)
    \/ StreamEnd(c)
    \/ \E e \in IterationErrors : StreamFail(c, e)
    \/ Resume(c)

Spec == Init /\ [][Next]_vars

(***************************************************************************)
(* A consumer that stops early.  At a yield the consumer may drop the      *)
(* generator (it never calls next() again) or close it with return(), as   *)
(* a break out of `for await` does.  The return completion leaves the try  *)
(* block without entering catch; when it passes through the chunk loop,    *)
(* `for await` closes the network stream's iterator: it invokes the        *)
(* iterator's return method.                                               *)
(***************************************************************************)
\* Mutation of Stop: the generator drains the network stream when it is
\* abandoned.
StopDraining(c, byReturn) ==
  /\ pc[c] \in {"yieldLoop", "yieldRest", "yieldDone", "yieldError"}
  /\ pc' = [pc EXCEPT ![c] = IF byReturn THEN "closed" ELSE "dropped"]
  /\ closed' = [closed EXCEPT ![c] = byReturn /\ pc[c] = "yieldLoop"]
  /\ received' = [received EXCEPT ![c] = @ \o rest[c]]
  /\ rest' = [rest EXCEPT ![c] = <<>>]
  /\ UNCHANGED <<modelsVars, carried, args, stream, buffer, lines, at,
                 finalResponse, events, thrown, failure, request,
                 toolCallCounter, log>>

Stop(c, byReturn) ==
  /\ pc[c] \in {"yieldLoop", "yieldRest", "yieldDone", "yieldError"}
  /\ pc' = [pc EXCEPT ![c] = IF byReturn THEN "closed" ELSE "dropped"]
  /\ closed' = [closed EXCEPT ![c] = byReturn /\ pc[c] = "yieldLoop"]
  /\ UNCHANGED <<modelsVars, carried, args, stream, rest, received, buffer, lines, at,
                 finalResponse, events, thrown, failure, request,
                 toolCallCounter, log>>

\* One chat invocation; the bodies of up to MaxLines lines go with the plain
\* stream, the others with every stream.
InitStop ==
  /\ pc = [c \in Calls |-> IF c = 1 THEN "created" ELSE "unused"]
  /\ args = [c \in Calls |-> DefaultArgs]
  /\ \E s \in StreamSet, t \in TextsUpTo(MaxLines) \cup ScenarioTexts :
       /\ s = PlainStream \/ t \in TextsUpTo(1)
       /\ stream = [c \in Calls |-> IF c = 1 THEN s ELSE PlainStream]
       /\ rest = [c \in Calls |-> IF c = 1 THEN t ELSE <<>>]
  /\ received = [c \in Calls |-> <<>>]
  /\ buffer = [c \in Calls |-> <<>>]
  /\ lines = [c \in Calls |-> <<>>]
  /\ at = [c \in Calls |-> 0]
  /\ finalResponse = [c \in Calls |-> <<>>]
  /\ events = [c \in Calls |-> <<>>]
  /\ thrown = [c \in Calls |-> <<>>]
  /\ failure = [c \in Calls |-> <<>>]
  /\ request = [c \in Calls |-> <<>>]
  /\ closed = [c \in Calls |-> FALSE]
  /\ carried = [c \in Calls |-> FALSE]
  /\ toolCallCounter = Zero
  /\ log = <<>>
  /\ NoModelsCalls

NextStop ==
  \/ Next
  \/ \E c \in Calls, byReturn \in BOOLEAN : Stop(c, byReturn)

SpecStop == InitStop /\ [][NextStop]_vars

(***************************************************************************)
(* Two chat invocations at once.  The bodies: a terminal object with two   *)
(* tool calls, and an answer whose terminal object has no final newline.   *)
(* The counter starts at 0, or two below Number.MAX_SAFE_INTEGER, where a  *)
(* process stands after that many identifiers.                             *)
(***************************************************************************)
TwoTexts ==
  {<<"{", "d", "}", NL>>,
   <<"{", "a", "}", NL, "{", "p", "}">>}

NearMax == [hi |-> MAX_SAFE_INTEGER.hi, lo |-> MAX_SAFE_INTEGER.lo - 2]

InitTwo ==
  /\ pc = [c \in Calls |-> "created"]
  /\ args = [c \in Calls |-> DefaultArgs]
  /\ stream = [c \in Calls |-> PlainStream]
  /\ rest \in [Calls -> TwoTexts]
  /\ received = [c \in Calls |-> <<>>]
  /\ buffer = [c \in Calls |-> <<>>]
  /\ lines = [c \in Calls |-> <<>>]
  /\ at = [c \in Calls |-> 0]
  /\ finalResponse = [c \in Calls |-> <<>>]
  /\ events = [c \in Calls |-> <<>>]
  /\ thrown = [c \in Calls |-> <<>>]
  /\ failure = [c \in Calls |-> <<>>]
  /\ request = [c \in Calls |-> <<>>]
  /\ closed = [c \in Calls |-> FALSE]
  /\ carried = [c \in Calls |-> FALSE]
  /\ toolCallCounter \in {Zero, NearMax}
  /\ log = <<>>
  /\ NoModelsCalls

SpecTwo == InitTwo /\ [][Next]_vars

(***************************************************************************)
(* fetchModels.  One step is one run of the async function between two     *)
(* awaits.                                                                 *)
(***************************************************************************)
\* Mutation of Reject: the catch block answers with an empty list.
RejectAsEmptyList(c, error) ==
  /\ mpc' = [mpc EXCEPT ![c] = "resolved"]
  /\ result' = [result EXCEPT ![c] = <<[ok |-> TRUE, models |-> <<>>]>>]
  /\ log' = Append(log, LogFetchFailed(error))

\* catch (error): log it and throw it again.
Reject(c, error) ==
  /\ mpc' = [mpc EXCEPT ![c] = "rejected"]
  /\ result' = [result EXCEPT ![c] = <<[ok |-> FALSE, error |-> error]>>]
  /\ log' = Append(log, LogFetchFailed(error))

\* Mutation of ModelsStart: a list fetched by another call is handed out
\* again without asking the server.
ModelsStartCached(c) ==
  /\ mpc[c] = "created"
  /\ UNCHANGED <<chatVars, response>>
  /\ IF \E d \in Calls : mpc[d] = "resolved"
     THEN /\ mpc' = [mpc EXCEPT ![c] = "resolved"]
          /\ result' = [result EXCEPT ![c] =
                          result[CHOOSE d \in Calls : mpc[d] = "resolved"]]
          /\ log' = Append(log, LogFetching)
          /\ UNCHANGED fetched
     ELSE /\ mpc' = [mpc EXCEPT ![c] = "awaitFetch"]
          /\ fetched' = [fetched EXCEPT ![c] = Append(@, TagsUrl(""))]
          /\ log' = Append(log, LogFetching)
          /\ UNCHANGED result

\* getModels(): the URL, the debug entry and the call of fetch.
ModelsStart(c) ==
  /\ mpc[c] = "created"
  /\ mpc' = [mpc EXCEPT ![c] = "awaitFetch"]
  /\ fetched' = [fetched EXCEPT ![c] = Append(@, TagsUrl(""))]
  /\ log' = Append(log, LogFetching)
  /\ UNCHANGED <<chatVars, response, result>>

\* fetch settles: a rejection or a status that is not ok goes to the catch
\* block, otherwise response.json() is awaited.
FetchSettle(c) ==
  /\ mpc[c] = "awaitFetch"
  /\ UNCHANGED <<chatVars, response, fetched>>
  /\ IF response[c].throws # <<>> THEN Reject(c, response[c].throws[1])
     ELSE IF ~response[c].ok THEN Reject(c, StatusError(response[c]))
     ELSE /\ mpc' = [mpc EXCEPT ![c] = "awaitJson"]
          /\ UNCHANGED <<result, log>>

\* response.json() settles; the models are mapped, counted in the log and
\* returned.
JsonSettle(c) ==
  /\ mpc[c] = "awaitJson"
  /\ UNCHANGED <<chatVars, response, fetched>>
  /\ IF ~response[c].body.parses THEN Reject(c, JsonSyntaxError)
     ELSE IF response[c].body.models = <<>> THEN Reject(c, TypeErrorMap)
     ELSE LET data == response[c].body.models[1]
              models == [i \in 1..Len(data) |-> ModelInfoOf(data[i])]
          IN  /\ mpc' = [mpc EXCEPT ![c] = "resolved"]
              /\ result' = [result EXCEPT ![c] = <<[ok |-> TRUE, models |-> models]>>]
              /\ log' = Append(log, LogFetched(Len(models)))

\* getModels is called twice, or once beside one chat over a one-line body.
InitModels ==
  /\ \/ /\ pc = [c \in Calls |-> "unused"]
        /\ stream = [c \in Calls |-> PlainStream]
        /\ rest = [c \in Calls |-> <<>>]
        /\ mpc = [c \in Calls |-> "created"]
        /\ response \in [Calls -> ResponseSet]
     \/ /\ pc = [c \in Calls |-> IF c = 1 THEN "created" ELSE "unused"]
        /\ \E s \in StreamSet :
             stream = [c \in Calls |-> IF c = 1 THEN s ELSE PlainStream]
        /\ rest = [c \in Calls |-> IF c = 1 THEN <<"{", "a", "}", NL>> ELSE <<>>]
        /\ mpc = [c \in Calls |-> IF c = 1 THEN "created" ELSE "unused"]
        /\ \E r \in ResponseSet : response = [c \in Calls |-> r]
  /\ args = [c \in Calls |-> DefaultArgs]
  /\ received = [c \in Calls |-> <<>>]
  /\ buffer = [c \in Calls |-> <<>>]
  /\ lines = [c \in Calls |-> <<>>]
  /\ at = [c \in Calls |-> 0]
  /\ finalResponse = [c \in Calls |-> <<>>]
  /\ events = [c \in Calls |-> <<>>]
  /\ thrown = [c \in Calls |-> <<>>]
  /\ failure = [c \in Calls |-> <<>>]
  /\ request = [c \in Calls |-> <<>>]
  /\ closed = [c \in Calls |-> FALSE]
  /\ carried = [c \in Calls |-> FALSE]
  /\ toolCallCounter = Zero
  /\ log = <<>>
  /\ result = [c \in Calls |-> <<>>]
  /\ fetched = [c \in Calls |-> <<>>]

NextModels ==
  \/ Next
  \/ \E c \in Calls :
       \/ ModelsStart(c)
       \/ FetchSettle(c)
       \/ JsonSettle(c)

SpecModels == InitModels /\ [][NextModels]_vars

(***************************************************************************)
(* What a body text must produce, computed on the whole text at once.      *)
(***************************************************************************)
IsPrefix(s, t) == Len(s) <= Len(t) /\ SubSeq(t, 1, Len(s)) = s

Terminal(e) == e.type \in {"done", "error"}

\* An event without its generated identifier.
Payload(e) ==
  IF e.type = "tool_start"
  THEN [type |-> "tool_start", name |-> e.name, input |-> e.input]
  ELSE e

Payloads(es) == [i \in 1..Len(es) |-> Payload(es[i])]

\* The events one object stands for: thinking, content, then its tool calls.
ObjectPayloads(data) ==
     (IF data.message.thinking # ""
      THEN <<[type |-> "thinking", text |-> data.message.thinking]>> ELSE <<>>)
  \o (IF data.message.content # ""
      THEN <<[type |-> "content", text |-> data.message.content]>> ELSE <<>>)
  \o (IF data.done
      THEN [i \in 1..Len(data.message.tool_calls) |->
              [type |-> "tool_start",
               name |-> data.message.tool_calls[i].function.name,
               input |-> data.message.tool_calls[i].function.arguments]]
      ELSE <<>>)

Decodes(line) == ~IsBlank(line) /\ JSONParse(line).ok

Malformed(line) == ~IsBlank(line) /\ ~JSONParse(line).ok

\* The objects decoded from a sequence of lines, in order.
Decoded(ls) ==
  LET good == SelectSeq(ls, Decodes)
  IN  [i \in 1..Len(good) |-> JSONParse(good[i]).data]

RECURSIVE Flatten(_)
Flatten(ss) == IF ss = <<>> THEN <<>> ELSE Head(ss) \o Flatten(Tail(ss))

ExpectedPayloads(ls) ==
  Flatten([i \in 1..Len(Decoded(ls)) |-> ObjectPayloads(Decoded(ls)[i])])

\* The newline-terminated lines of a text, and what follows the last newline.
CompleteLines(text) == SubSeq(Split(text), 1, Len(Split(text)) - 1)

OpenLine(text) == Split(text)[Len(Split(text))]

Finished(c) == pc[c] \in {"returned", "threw"}

EndedWithDone(c) ==
  /\ pc[c] \in {"yieldDone", "returned"}
  /\ events[c] # <<>>
  /\ events[c][Len(events[c])].type = "done"

EndedWithError(c) ==
  /\ pc[c] \in {"yieldError", "returned"}
  /\ events[c] # <<>>
  /\ events[c][Len(events[c])].type = "error"

(***************************************************************************)
(* C1: a chat invocation consumed to exhaustion has emitted non-terminal   *)
(* events followed by exactly one terminal event (done or error), which is *)
(* the last event.  Stated as written; the code violates it when input     *)
(* normalisation throws (see C2): the invocation ends with no event.       *)
(***************************************************************************)
C1_ExactlyOneTerminal ==
  \A c \in Calls :
    Finished(c) =>
      /\ events[c] # <<>>
      /\ Terminal(events[c][Len(events[c])])
      /\ \A i \in 1..(Len(events[c]) - 1) : ~Terminal(events[c][i])

(***************************************************************************)
(* C2: no exception leaves streamChat: every error raised before or during *)
(* the outbound call, input normalisation included, ends the sequence with *)
(* one error event.  Stated as written; the code violates it, because the  *)
(* conversion of messages and tools runs before the try block.             *)
(***************************************************************************)
C2_NoExceptionEscapes ==
  \A c \in Calls :
    /\ thrown[c] = <<>>
    /\ pc[c] # "threw"
    /\ (Finished(c) /\ ~convertToolsToOllama(args[c].options.tools).ok) =>
         EndedWithError(c)

(***************************************************************************)
(* C3: while chunks are being read, the events emitted so far are exactly  *)
(* those of the newline-terminated lines received (a prefix of them while  *)
(* the consumer is still pulling), and the text after the last newline is  *)
(* held in the carry-over buffer: a line split across chunks produces      *)
(* nothing until its newline has arrived, and then the events of the       *)
(* reassembled line.                                                       *)
(***************************************************************************)
C3_SplitLineHeldBack ==
  \A c \in Calls :
    /\ pc[c] \in {"awaitChunk", "yieldLoop"} =>
         /\ buffer[c] = OpenLine(received[c])
         /\ IsPrefix(Payloads(events[c]), ExpectedPayloads(CompleteLines(received[c])))
    /\ pc[c] = "awaitChunk" =>
         Payloads(events[c]) = ExpectedPayloads(CompleteLines(received[c]))

\* A chunk boundary fell inside the object {b}: the first two characters are
\* buffered, the rest is still to come, an earlier line has been emitted.
C3_Witness ==
  /\ pc[1] = "awaitChunk"
  /\ buffer[1] = <<"{", "b">>
  /\ rest[1] # <<>> /\ Head(rest[1]) = "}"
  /\ Len(events[1]) = 1 /\ events[1][1].type = "content"

Count(seq, P(_)) == Len(SelectSeq(seq, P))

OfType(t, es) == SelectSeq(es, LAMBDA e : e.type = t)

\* The chunk stream of call c has signalled its end.
StreamEnded(c) ==
  \/ pc[c] \in {"yieldRest", "yieldDone"}
  \/ /\ pc[c] = "returned"
     /\ failure[c] = <<>>
     /\ stream[c].throws = <<>>
     /\ stream[c].ok # <<FALSE>>

(***************************************************************************)
(* C4: a complete non-blank line that is not JSON produces no event and no *)
(* error, only one logged warning: once the stream has ended, the events   *)
(* before done are those of the received lines with the malformed ones     *)
(* left out, and the log holds one parse warning per malformed line.       *)
(***************************************************************************)
C4_MalformedLineSkipped ==
  \A c \in Calls :
    (StreamEnded(c) /\ pc[c] \in {"yieldDone", "returned"}) =>
      LET ls == Split(received[c])
          n  == Len(events[c])
      IN  /\ n > 0 /\ events[c][n].type = "done"
          /\ Payloads(SubSeq(events[c], 1, n - 1)) =
               ExpectedPayloads(SelectSeq(ls, LAMBDA l : ~Malformed(l)))
          /\ OfType("error", events[c]) = <<>>
          /\ Count(log, LAMBDA e : e = LogParseWarn) = Count(ls, Malformed)

\* The truncated line {a lies between the valid lines {a} and {b}.
C4_Witness ==
  /\ pc[1] = "returned"
  /\ received[1] = <<"{", "a", "}", NL, "{", "a", NL, "{", "b", "}", NL>>
  /\ Len(events[1]) = 4
  /\ Count(log, LAMBDA e : e = LogParseWarn) = 1

NoTerminalObject(text) ==
  \A i \in 1..Len(Decoded(Split(text))) : ~Decoded(Split(text))[i].done

(***************************************************************************)
(* C5: when the chunk stream ends and no decoded object had done = true    *)
(* (the empty body and the all-malformed body included), exactly one done  *)
(* event is emitted, it carries no usage, no error event is emitted and    *)
(* the missing final chunk is logged as a warning.                         *)
(***************************************************************************)
C5_MissingTerminalStillDone ==
  \A c \in Calls :
    (StreamEnded(c) /\ pc[c] \in {"yieldDone", "returned"}
       /\ NoTerminalObject(received[c])) =>
      /\ OfType("done", events[c]) = <<[type |-> "done", usage |-> <<>>]>>
      /\ events[c][Len(events[c])].type = "done"
      /\ OfType("error", events[c]) = <<>>
      /\ Count(log, LAMBDA e : e = LogNoFinal) = 1
      /\ Count(log, LAMBDA e : e.level = "error") = 0

\* Every line of the body was malformed.
C5_Witness ==
  /\ pc[1] = "returned"
  /\ received[1] = <<"{", "a", NL, "{", "a", NL>>
  /\ events[1] = <<[type |-> "done", usage |-> <<>>]>>

ExpectedToolCalls(text) ==
  LET ts == SelectSeq(Decoded(Split(text)), LAMBDA d : d.done)
  IN  Flatten([i \in 1..Len(ts) |-> ts[i].message.tool_calls])

(***************************************************************************)
(* C6: the tool_start events of a call are, in order, the tool calls of    *)
(* the terminal objects decoded (n events for n calls, each with the       *)
(* call's name and arguments), their identifiers are pairwise distinct,    *)
(* and all of them precede the done event.                                 *)
(***************************************************************************)
C6_ToolStartPerCall ==
  \A c \in Calls :
    LET ts == OfType("tool_start", events[c])
    IN  /\ \A i, j \in 1..Len(ts) : i # j => ts[i].toolCallId # ts[j].toolCallId
        /\ (StreamEnded(c) /\ pc[c] \in {"yieldDone", "returned"}) =>
             /\ [i \in 1..Len(ts) |-> [name |-> ts[i].name, arguments |-> ts[i].input]]
                  = [i \in 1..Len(ExpectedToolCalls(received[c])) |->
                       ExpectedToolCalls(received[c])[i].function]
             /\ \A i \in 1..Len(events[c]) :
                  events[c][i].type = "done" => i = Len(events[c])

\* One terminal object with two tool calls, both generated in the same
\* millisecond.
C6_Witness ==
  /\ pc[1] = "returned"
  /\ received[1] = <<"{", "d", "}", NL>>
  /\ Len(events[1]) = 4
  /\ events[1][2].type = "tool_start" /\ events[1][2].name = "get_time"
  /\ events[1][3].type = "tool_start" /\ events[1][3].name = "get_weather"
  /\ events[1][2].toolCallId[2] = events[1][3].toolCallId[2]
  /\ events[1][4].type = "done"

ExpectedUsage(text) ==
  LET ts == SelectSeq(Decoded(Split(text)), LAMBDA d : d.done)
  IN  IF ts = <<>> THEN <<>>
      ELSE IF ts[Len(ts)].prompt_eval_count = <<>> \/ ts[Len(ts)].eval_count = <<>>
      THEN <<>>
      ELSE <<[inputTokens |-> ts[Len(ts)].prompt_eval_count[1],
              outputTokens |-> ts[Len(ts)].eval_count[1]]>>

(***************************************************************************)
(* C7: the done event carries usage exactly when a terminal object was     *)
(* recorded and both prompt_eval_count and eval_count are present on it    *)
(* (the last one, when several were decoded); then inputTokens and         *)
(* outputTokens are those two counts, and otherwise there is no usage.     *)
(***************************************************************************)
C7_UsageBothOrNone ==
  \A c \in Calls :
    \A i \in 1..Len(events[c]) :
      events[c][i].type = "done" =>
        events[c][i].usage = ExpectedUsage(received[c])

\* A terminal object with only prompt_eval_count is followed by one with
\* both counts (eval_count = 0).
C7_Witness ==
  /\ pc[1] = "returned"
  /\ received[1] = <<"{", "p", "}", NL, "{", "d", "}">>
  /\ events[1][Len(events[1])] =
       [type |-> "done", usage |-> <<[inputTokens |-> 12, outputTokens |-> 0]>>]

ExpectedContents(ls) ==
  LET ds == SelectSeq(Decoded(ls), LAMBDA d : d.message.content # "")
  IN  [i \in 1..Len(ds) |-> ds[i].message.content]

(***************************************************************************)
(* C8: the texts of the content events are, one for one and in order, the  *)
(* non-empty message contents of the decoded objects: no content event     *)
(* carries text of another line or of another field.                       *)
(***************************************************************************)
C8_ContentIsTheObjectsOwn ==
  \A c \in Calls :
    LET cs == OfType("content", events[c])
        texts == [i \in 1..Len(cs) |-> cs[i].text]
    IN  /\ IsPrefix(texts, ExpectedContents(Split(received[c])))
        /\ (StreamEnded(c) /\ pc[c] \in {"yieldDone", "returned"}) =>
             texts = ExpectedContents(Split(received[c]))

\* "Hi" then "Hi there": the second event replaces, it is not "HiHi there".
C8_Witness ==
  /\ pc[1] = "returned"
  /\ received[1] = <<"{", "a", "}", NL, "{", "b", "}", NL>>
  /\ OfType("content", events[1]) =
       <<[type |-> "content", text |-> "Hi"], [type |-> "content", text |-> "Hi there"]>>

(***************************************************************************)
(* C9: when the chunk iteration rejects, the events of the complete lines  *)
(* received before are all there, followed by one error event with the     *)
(* failure's message; there is no done event and the text held in the      *)
(* carry-over buffer has produced nothing.                                 *)
(***************************************************************************)
C9_FailureKeepsEmitted ==
  \A c \in Calls :
    failure[c] # <<>> =>
      LET n == Len(events[c])
      IN  /\ pc[c] \in {"yieldError", "returned"}
          /\ n > 0
          /\ events[c][n] =
               [type |-> "error",
                message |-> IF failure[c][1].isError THEN failure[c][1].message
                            ELSE failure[c][1].value]
          /\ Payloads(SubSeq(events[c], 1, n - 1)) =
               ExpectedPayloads(CompleteLines(received[c]))
          /\ OfType("done", events[c]) = <<>>
          /\ buffer[c] = OpenLine(received[c])

\* The stream broke after {a} and the first half of {b}.
C9_Witness ==
  /\ pc[1] = "returned"
  /\ failure[1] # <<>>
  /\ received[1] = <<"{", "a", "}", NL, "{", "b">>
  /\ buffer[1] = <<"{", "b">>
  /\ Len(events[1]) = 2
  /\ events[1][1] = [type |-> "content", text |-> "Hi"]
  /\ events[1][2].type = "error"

NonSuccess(s) ==
  \/ s.ok = <<FALSE>>
  \/ s.status # <<>> /\ s.status[1] \notin 200..299

InRange(x, seq) == \E i \in 1..Len(seq) : seq[i] = x

C11_ThreeStepModel ==
  \A c \in Calls :
    \A i \in 1..Len(request[c]) :
      request[c][i].body.model =
        IF args[c].options.model # "" THEN args[c].options.model
        ELSE IF args[c].options.settings.defaultModel # ""
             THEN args[c].options.settings.defaultModel
             ELSE DEFAULT_MODEL

(***************************************************************************)
(* getModels calls: how a call stands and what the server answered.        *)
(***************************************************************************)
Settled(c) == mpc[c] \in {"resolved", "rejected"}

\* The answer is a success whose body parses and has a models array.
HasModelsArray(r) ==
  r.throws = <<>> /\ r.status \in 200..299 /\ r.body.parses /\ r.body.models # <<>>

\* The description the claim gives an entry: the size and the word
\* parameters when the size is there and non-empty, none otherwise.
ExpectedDescription(entry) ==
  IF entry.details = <<>> THEN <<>>
  ELSE IF entry.details[1].parameter_size \in {<<>>, <<"">>} THEN <<>>
       ELSE <<entry.details[1].parameter_size[1] \o " parameters">>

(***************************************************************************)
(* C12: for a successful response whose body has a models array, the call  *)
(* resolves with one ModelInfo per entry, in the order of the array, with  *)
(* id and name equal to the entry's name and with the description          *)
(* "<parameter_size> parameters" when details.parameter_size is non-empty  *)
(* and no description otherwise.                                           *)
(***************************************************************************)
C12_OneModelInfoPerEntry ==
  \A c \in Calls :
    (Settled(c) /\ HasModelsArray(response[c])) =>
      LET upstream == response[c].body.models[1]
      IN  /\ mpc[c] = "resolved"
          /\ result[c][1].ok
          /\ Len(result[c][1].models) = Len(upstream)
          /\ \A i \in 1..Len(upstream) :
               /\ result[c][1].models[i].id = upstream[i].name
               /\ result[c][1].models[i].name = upstream[i].name
               /\ result[c][1].models[i].description = ExpectedDescription(upstream[i])

\* Four entries: a size, no details, an empty size, details without size.
C12_Witness ==
  /\ mpc[1] = "resolved"
  /\ response[1].body.models = <<TagsModels>>
  /\ Len(result[1][1].models) = 4
  /\ result[1][1].models[1] =
       [id |-> "llama3.2:8b", name |-> "llama3.2:8b", description |-> <<"8.0B parameters">>]
  /\ result[1][1].models[2] =
       [id |-> "mistral:7b", name |-> "mistral:7b", description |-> <<>>]
  /\ result[1][1].models[3].description = <<>>
  /\ result[1][1].models[4].description = <<>>

(***************************************************************************)
(* C13: when the tags endpoint answers with a status outside 200..299,     *)
(* the call rejects with an error whose message contains the status code,  *)
(* the body is never read and no list is returned.                         *)
(***************************************************************************)
C13_NonSuccessRejects ==
  \A c \in Calls :
    (response[c].throws = <<>> /\ response[c].status \notin 200..299) =>
      /\ mpc[c] \notin {"awaitJson", "resolved"}
      /\ Settled(c) =>
           /\ mpc[c] = "rejected"
           /\ ~result[c][1].ok
           /\ result[c][1].error.isError
           /\ InRange(ToString(response[c].status), result[c][1].error.message)

C13_Witness ==
  /\ mpc[1] = "rejected"
  /\ response[1].status = 404
  /\ InRange("404", result[1][1].error.message)

\* What makes a getModels call fail, and the error it fails with.
ModelsFailure(r) ==
  IF r.throws # <<>> THEN <<r.throws[1]>>
  ELSE IF r.status \notin 200..299 THEN <<StatusError(r)>>
  ELSE IF ~r.body.parses THEN <<JsonSyntaxError>>
  ELSE <<>>

IsFetchFailedEntry(e) == e.level = "error" /\ e.msg = "Failed to fetch Ollama models"

(***************************************************************************)
(* C14: a network failure, a non-success status and a malformed JSON body  *)
(* each make the call reject with that one error, which has been logged;   *)
(* the log holds exactly one error entry per rejected call, and a call     *)
(* that met one of the three never resolves with a list, partial or empty. *)
(***************************************************************************)
C14_AllOrNothing ==
  /\ \A c \in Calls :
       (Settled(c) /\ ModelsFailure(response[c]) # <<>>) =>
         /\ mpc[c] = "rejected"
         /\ result[c] = <<[ok |-> FALSE, error |-> ModelsFailure(response[c])[1]]>>
         /\ InRange(LogFetchFailed(ModelsFailure(response[c])[1]), log)
  /\ Count(log, IsFetchFailedEntry) = Cardinality({c \in Calls : mpc[c] = "rejected"})

\* One call met a network failure, the other a body that is not JSON.
C14_Witness ==
  /\ mpc[1] = "rejected" /\ response[1].throws # <<>>
  /\ mpc[2] = "rejected" /\ response[2].throws = <<>> /\ response[2].ok
  /\ ~response[2].body.parses
  /\ Count(log, IsFetchFailedEntry) = 2

(***************************************************************************)
(* C15: an invocation issues at most one outbound call: a getModels call   *)
(* has fetched at most once, from /api/tags, and exactly once when it has  *)
(* settled, failed or not; a chat call has called fetchStream at most      *)
(* once, on /api/chat, and exactly once when it got past normalisation.    *)
(* A settled call has made its own outbound call and holds the answer to   *)
(* it, not the answer given to another call.                               *)
(***************************************************************************)
C15_OneOutboundCall ==
  \A c \in Calls :
    /\ Len(fetched[c]) <= 1
    /\ \A i \in 1..Len(fetched[c]) : fetched[c][i][2] = "/api/tags"
    /\ mpc[c] \in {"unused", "created"} <=> fetched[c] = <<>>
    /\ mpc[c] = "resolved" =>
         /\ Len(result[c][1].models) = Len(response[c].body.models[1])
         /\ \A i \in 1..Len(result[c][1].models) :
              result[c][1].models[i].id = response[c].body.models[1][i].name
    /\ Len(request[c]) <= 1
    /\ \A i \in 1..Len(request[c]) : request[c][i].url[2] = "/api/chat"
    /\ pc[c] \in {"unused", "created", "threw"} <=> request[c] = <<>>

\* The first call failed, the second one was answered with a list of its
\* own; each has fetched once.
C15_Witness ==
  /\ mpc[1] = "rejected" /\ mpc[2] = "resolved"
  /\ Len(fetched[1]) = 1 /\ Len(fetched[2]) = 1
  /\ Len(result[2][1].models) = 1
  /\ result[2][1].models[1].id = "phi4"

(***************************************************************************)
(* Identifiers handed out so far, over all chat calls.                     *)
(***************************************************************************)
IdsOf(c) ==
  [i \in 1..Len(OfType("tool_start", events[c])) |->
     OfType("tool_start", events[c])[i].toolCallId]

AllIds == Flatten([c \in 1..Cardinality(Calls) |-> IdsOf(c)])

AllIdsDistinct ==
  \A i, j \in 1..Len(AllIds) : i # j => AllIds[i] # AllIds[j]

\* C16 as written: the counter never decreases, it grows with every
\* identifier generated, and all identifiers handed out are distinct.
C16_Original ==
  /\ [][/\ Geq(toolCallCounter', toolCallCounter)
        /\ AllIds' # AllIds => toolCallCounter' # toolCallCounter]_vars
  /\ []AllIdsDistinct

(***************************************************************************)
(* C16 as amended: every generated identifier advances the process-wide    *)
(* counter by one, except that the counter restarts at 1 instead of        *)
(* reaching Number.MAX_SAFE_INTEGER; the identifiers handed out over a run *)
(* of generations, the restart included, are pairwise distinct across the  *)
(* chat calls, interleaved and within one timestamp as they may be.        *)
(***************************************************************************)
C16_CounterStepsOrRestarts ==
  /\ [][/\ AllIds' # AllIds <=> toolCallCounter' # toolCallCounter
        /\ toolCallCounter' # toolCallCounter =>
             toolCallCounter' = IF Geq(Inc(toolCallCounter), MAX_SAFE_INTEGER)
                                THEN One ELSE Inc(toolCallCounter)]_vars
  /\ []AllIdsDistinct

\* Two calls interleaved within one millisecond, across the restart: the
\* first call holds the last identifier below the limit and the one
\* numbered 2, the second call the one numbered 1.
C16_Witness ==
  /\ Len(IdsOf(1)) = 2 /\ Len(IdsOf(2)) >= 1
  /\ \A i \in 1..Len(AllIds) : AllIds[i][2] = 0
  /\ IdsOf(1)[1][3] = ToString36(Inc(NearMax))
  /\ IdsOf(2)[1][3] = <<1>>
  /\ IdsOf(1)[2][3] = <<2>>

\* The last terminal object among the complete lines of a text, as the
\* recorded final response: <<>> when there is none.
ExpectedFinal(ls) ==
  LET ts == SelectSeq(Decoded(ls), LAMBDA d : d.done)
  IN  IF ts = <<>> THEN <<>> ELSE <<ts[Len(ts)]>>

(***************************************************************************)
(* C18: with two chat calls consumed in any interleaving, the carry-over   *)
(* buffer, the recorded final response and the events of each call are     *)
(* those of its own chunks alone: while a call reads, its buffer is the    *)
(* text after its last newline, its final response the last terminal       *)
(* object of its own complete lines and its events those of its own        *)
(* complete lines; when it has ended normally, its events are those of its *)
(* own body followed by done with the usage of its own terminal object.    *)
(* Events are compared without the generated identifiers.                  *)
(***************************************************************************)
C18_CallsAreIndependent ==
  \A c \in Calls :
    /\ pc[c] \in {"awaitChunk", "yieldLoop"} =>
         /\ buffer[c] = OpenLine(received[c])
         /\ IsPrefix(Payloads(events[c]), ExpectedPayloads(CompleteLines(received[c])))
    /\ pc[c] = "awaitChunk" =>
         /\ Payloads(events[c]) = ExpectedPayloads(CompleteLines(received[c]))
         /\ finalResponse[c] = ExpectedFinal(CompleteLines(received[c]))
    /\ (pc[c] \in {"yieldDone", "returned"} /\ failure[c] = <<>>) =>
         Payloads(events[c]) =
           ExpectedPayloads(Split(received[c]))
             \o <<[type |-> "done", usage |-> ExpectedUsage(received[c])]>>

\* Both calls hold half a line of their own, after the first has emitted.
C18_Witness ==
  /\ pc[1] = "awaitChunk" /\ pc[2] = "awaitChunk"
  /\ buffer[1] = <<"{", "p">>
  /\ buffer[2] = <<"{", "d">>
  /\ Len(events[1]) = 1 /\ events[2] = <<>>

(***************************************************************************)
(* What the consumer of a call has seen, and whether it has stopped.       *)
(***************************************************************************)
Stopped(c) == pc[c] \in {"dropped", "closed"}

NonTerminal(es) == SelectSeq(es, LAMBDA e : ~Terminal(e))

\* Events come in receipt order: those emitted are the first ones of the
\* lines received, line after line.
ReceiptOrder ==
  \A c \in Calls :
    IsPrefix(Payloads(NonTerminal(events[c])), ExpectedPayloads(Split(received[c])))

\* A chunk is read only by a generator that waits for one, after every
\* event of the complete lines received before has been pulled.
ReadsWhenPulled ==
  \A c \in Calls :
    received'[c] # received[c] =>
      /\ pc[c] = "awaitChunk"
      /\ Payloads(events[c]) = ExpectedPayloads(CompleteLines(received[c]))

\* After the consumer has stopped nothing more is read, emitted or logged.
QuietOnceStopped ==
  \A c \in Calls :
    Stopped(c) =>
      /\ pc'[c] = pc[c]
      /\ received'[c] = received[c] /\ rest'[c] = rest[c]
      /\ events'[c] = events[c]
      /\ closed'[c] = closed[c]
      /\ log' = log /\ toolCallCounter' = toolCallCounter

\* The step in which the consumer stops changes nothing but the
\* generator's position and, possibly, the stream iterator's being closed.
QuietStop ==
  \A c \in Calls :
    (~Stopped(c) /\ Stopped(c)') =>
      /\ received'[c] = received[c] /\ rest'[c] = rest[c]
      /\ events'[c] = events[c]
      /\ log' = log /\ toolCallCounter' = toolCallCounter

\* C17 as written: receipt order, chunks read only when everything decoded
\* has been pulled, and an early stop that reads, emits and logs nothing and
\* sends no cancellation signal to the network stream.
C17_Original ==
  /\ []ReceiptOrder
  /\ [][ReadsWhenPulled /\ QuietOnceStopped /\ QuietStop]_vars
  /\ [](\A c \in Calls : ~closed[c])

(***************************************************************************)
(* C17 as amended: events come in receipt order; a chunk is read only      *)
(* after every event decoded from the chunks received has been pulled; a   *)
(* consumer that stops early causes no further chunk to be read, no        *)
(* further event and no log entry.  When it stops by closing the generator *)
(* while the chunk loop is suspended at a yield, return() is invoked on    *)
(* the network stream's iterator; in every other case the network stream   *)
(* receives no signal.                                                     *)
(***************************************************************************)
C17_LazyAndQuietStop ==
  /\ []ReceiptOrder
  /\ [][ReadsWhenPulled /\ QuietOnceStopped /\ QuietStop]_vars
  /\ [][\A c \in Calls :
          closed'[c] # closed[c] =>
            pc[c] = "yieldLoop" /\ pc'[c] = "closed" /\ closed'[c]]_vars
  /\ [](\A c \in Calls : pc[c] = "dropped" => ~closed[c])

\* The first chunk held two lines; the consumer took the first event and
\* broke out of its loop: the second line's events are never produced, the
\* third line is never read, the stream's iterator has been closed.
C17_Witness ==
  /\ pc[1] = "closed"
  /\ closed[1]
  /\ received[1] = <<"{", "a", "}", NL, "{", "b", "}", NL>>
  /\ rest[1] = <<"{", "d", "}", NL>>
  /\ events[1] = <<[type |-> "content", text |-> "Hi"]>>
  /\ log = <<LogStart>>

\* The objects decoded so far when call c has pulled everything: those of
\* the complete lines while it reads, those of the whole body at the end.
DecodedSoFar(c) ==
  Decoded(IF pc[c] = "awaitChunk" THEN CompleteLines(received[c])
          ELSE Split(received[c]))

EventTypes(es) == [i \in 1..Len(es) |-> es[i].type]

\* The types of the events of one object, in the order the claim fixes.
TypesOf(data) ==
     (IF data.message.thinking # "" THEN <<"thinking">> ELSE <<>>)
  \o (IF data.message.content # "" THEN <<"content">> ELSE <<>>)
  \o (IF data.done THEN [i \in 1..Len(data.message.tool_calls) |-> "tool_start"]
      ELSE <<>>)

(***************************************************************************)
(* C19: the events of one decoded object are a thinking event if and only  *)
(* if message.thinking is non-empty, then a content event if and only if   *)
(* message.content is non-empty, then the tool_start events, which exist   *)
(* only when done is true; an object with empty thinking, empty content    *)
(* and no terminal tool calls gives no event.  Whenever the consumer has   *)
(* pulled everything, the types of the events emitted are the types of the *)
(* decoded objects in that order, object after object, and the texts are   *)
(* the objects' own.                                                       *)
(***************************************************************************)
C19_FixedOrderPerObject ==
  \A c \in Calls :
    (\/ pc[c] = "awaitChunk"
     \/ pc[c] \in {"yieldDone", "returned"} /\ StreamEnded(c)) =>
      LET ds == DecodedSoFar(c)
          es == NonTerminal(events[c])
      IN  /\ EventTypes(es) = Flatten([i \in 1..Len(ds) |-> TypesOf(ds[i])])
          /\ \A i \in 1..Len(es) :
               /\ es[i].type = "thinking" =>
                    \E k \in 1..Len(ds) : es[i].text = ds[k].message.thinking
               /\ es[i].type = "content" =>
                    \E k \in 1..Len(ds) : es[i].text = ds[k].message.content
          /\ (\A k \in 1..Len(ds) : TypesOf(ds[k]) = <<>>) => es = <<>>

\* An object that gives no event (no text, a tool call, done false), then
\* one that gives all three kinds.
C19_Witness ==
  /\ pc[1] = "returned"
  /\ received[1] = <<"{", "e", "}", NL, "{", "p", "}", NL>>
  /\ EventTypes(events[1]) = <<"thinking", "content", "tool_start", "done">>
  /\ events[1][1].text = "plan" /\ events[1][2].text = "Bye"
  /\ events[1][3].name = "get_weather"

\* Both counts of an object as a usage, or none.
BothCounts(d) ==
  IF d.prompt_eval_count # <<>> /\ d.eval_count # <<>>
  THEN <<[inputTokens |-> d.prompt_eval_count[1], outputTokens |-> d.eval_count[1]]>>
  ELSE <<>>

(***************************************************************************)
(* C20: when the chunk stream has ended normally, the text after the last  *)
(* newline, if not blank, has been decoded once like a complete line       *)
(* before done: the events before done are those of the complete lines     *)
(* followed by those of that text; a terminal object in it is the final    *)
(* response and gives done its usage; if it does not parse, one more       *)
(* warning is logged and nothing else happens.  While its events are being *)
(* pulled, those emitted are a prefix of the same sequence.                *)
(***************************************************************************)
C20_RemainingBufferDecoded ==
  \A c \in Calls :
    LET open == OpenLine(received[c])
        whole == ExpectedPayloads(CompleteLines(received[c]))
                   \o (IF Decodes(open) THEN ObjectPayloads(JSONParse(open).data)
                       ELSE <<>>)
        last == IF Decodes(open) /\ JSONParse(open).data.done
                THEN <<JSONParse(open).data>>
                ELSE ExpectedFinal(CompleteLines(received[c]))
        n == Len(events[c])
    IN  /\ pc[c] = "yieldRest" =>
             /\ Decodes(open)
             /\ IsPrefix(Payloads(events[c]), whole)
             /\ Len(events[c]) > Len(ExpectedPayloads(CompleteLines(received[c])))
        /\ (pc[c] \in {"yieldDone", "returned"} /\ StreamEnded(c)) =>
             /\ Payloads(SubSeq(events[c], 1, n - 1)) = whole
             /\ events[c][n] =
                  [type |-> "done",
                   usage |-> IF last = <<>> THEN <<>> ELSE BothCounts(last[1])]
             /\ finalResponse[c] = last
             /\ Count(log, LAMBDA e : e = LogParseWarn) =
                  Count(CompleteLines(received[c]), Malformed)
                    + (IF Malformed(open) THEN 1 ELSE 0)
             /\ Count(log, LAMBDA e : e.level = "error") = 0

\* The terminal object came without a final newline.
C20_Witness ==
  /\ pc[1] = "returned"
  /\ received[1] = <<"{", "a", "}", NL, "{", "d", "}">>
  /\ buffer[1] = <<"{", "d", "}">>
  /\ EventTypes(events[1]) = <<"content", "content", "tool_start", "tool_start", "done">>
  /\ events[1][5].usage = <<[inputTokens |-> 12, outputTokens |-> 0]>>

\* A request body without its think field.
WithoutThink(body) == [body EXCEPT !.think = <<>>]

(***************************************************************************)
(* C21: a thinking setting that is absent, empty or "off" adds no think    *)
(* field to the request body; "on" adds think = true; any other value adds *)
(* think equal to that value; apart from the think field the body is the   *)
(* one sent for the same arguments without a thinking setting.             *)
(***************************************************************************)
C21_ThinkTranslation ==
  \A c \in Calls :
    \A i \in 1..Len(request[c]) :
      LET setting == args[c].options.settings.thinking
          body == request[c][i].body
      IN  /\ setting \in {"", "off"} => body.think = <<>>
          /\ setting = "on" => body.think = <<[isTrue |-> TRUE, mode |-> ""]>>
          /\ setting \notin {"", "off", "on"} =>
               body.think = <<[isTrue |-> FALSE, mode |-> setting]>>
          /\ WithoutThink(body) =
               WithoutThink(RequestBody(WithThinking(args[c], "")))

\* The upstream-specific mode "high", sent with two tools.
C21_Witness ==
  /\ pc[1] = "returned"
  /\ args[1].options.settings.thinking = "high"
  /\ Len(request[1]) = 1
  /\ request[1][1].body.think = <<[isTrue |-> FALSE, mode |-> "high"]>>
  /\ Len(request[1][1].body.tools) = 2

\* Call c has ended normally: the chunk stream ended and done was emitted.
EndedNormally(c) == pc[c] \in {"yieldDone", "returned"} /\ failure[c] = <<>>

(***************************************************************************)
(* C22: two chat calls that received the same text, cut into chunks in any *)
(* two ways (inside an object, before or after a newline, with empty       *)
(* chunks), have emitted the same events, identifiers apart, when both     *)
(* have ended normally, and also whenever both wait for their next chunk,  *)
(* where they hold the same carry-over buffer and final response.  The     *)
(* carry-over buffer never contains a newline.                             *)
(***************************************************************************)
C22_ChunkingIndependent ==
  /\ \A c \in Calls : ~InRange(NL, buffer[c])
  /\ \A c, d \in Calls :
       received[c] = received[d] =>
         /\ (EndedNormally(c) /\ EndedNormally(d)) =>
              Payloads(events[c]) = Payloads(events[d])
         /\ (pc[c] = "awaitChunk" /\ pc[d] = "awaitChunk") =>
              /\ Payloads(events[c]) = Payloads(events[d])
              /\ buffer[c] = buffer[d]
              /\ finalResponse[c] = finalResponse[d]

\* The same body for both calls: the first received it with a chunk
\* boundary inside a line, the second with none.
C22_Witness ==
  /\ pc[1] = "returned" /\ pc[2] = "returned"
  /\ failure[1] = <<>> /\ failure[2] = <<>>
  /\ received[1] = <<"{", "d", "}", NL>>
  /\ received[2] = received[1]
  /\ carried[1] /\ ~carried[2]
  /\ Len(events[1]) = 4 /\ Len(events[2]) = 4

\* The objects of a body that carry done = true, in order.
TerminalObjects(text) == SelectSeq(Decoded(Split(text)), LAMBDA d : d.done)

\* The tool calls a body holds in objects that carry done = false.
DroppedToolCalls(text) ==
  LET ns == SelectSeq(Decoded(Split(text)), LAMBDA d : ~d.done)
  IN  Flatten([i \in 1..Len(ns) |-> ns[i].message.tool_calls])

(***************************************************************************)
(* C23: when a call has ended normally, it has emitted one tool_start per  *)
(* tool call of every done-true object, a second done-true object's calls  *)
(* included, and none for the tool calls of done-false objects; the events *)
(* before done are those of all decoded objects, the ones after a          *)
(* done-true object included; the usage on done is that of the last        *)
(* done-true object.  At no time are there more tool_start events than     *)
(* tool calls in the done-true objects received.                           *)
(***************************************************************************)
C23_ToolCallsOnlyWhenDone ==
  \A c \in Calls :
    LET ts == TerminalObjects(received[c])
        calls == Flatten([i \in 1..Len(ts) |-> ts[i].message.tool_calls])
        starts == OfType("tool_start", events[c])
    IN  /\ Len(starts) <= Len(calls)
        /\ \A i \in 1..Len(starts) :
             /\ starts[i].name = calls[i].function.name
             /\ starts[i].input = calls[i].function.arguments
        /\ (StreamEnded(c) /\ pc[c] \in {"yieldDone", "returned"}) =>
             /\ Len(starts) = Len(calls)
             /\ Len(events[c]) =
                  1 + Len(Flatten([i \in 1..Len(Decoded(Split(received[c]))) |->
                                     TypesOf(Decoded(Split(received[c]))[i])]))
             /\ events[c][Len(events[c])] =
                  [type |-> "done",
                   usage |-> IF ts = <<>> THEN <<>> ELSE BothCounts(ts[Len(ts)])]

\* Two done-true objects: the second one's tool call is emitted as well,
\* its events follow those of the first, and done has no usage because the
\* second object lacks eval_count, though the first had both counts.
C23_Witness ==
  /\ pc[1] = "returned"
  /\ received[1] = <<"{", "d", "}", NL, "{", "p", "}", NL>>
  /\ EventTypes(events[1]) =
       <<"content", "tool_start", "tool_start", "thinking", "content", "tool_start", "done">>
  /\ events[1][3].name = "get_weather" /\ events[1][6].name = "get_weather"
  /\ events[1][7].usage = <<>>

\* A done-false object with a tool call, then the terminal object: the
\* first object's tool call is never emitted.
C23_DroppedWitness ==
  /\ pc[1] = "returned"
  /\ received[1] = <<"{", "b", "}", NL, "{", "d", "}", NL>>
  /\ Len(DroppedToolCalls(received[1])) = 1
  /\ Len(OfType("tool_start", events[1])) = 2

====
